---- MODULE Spec2Model ----
(* The Biscotti Cafe order system (cafe_order_system.py): the Cafe registry  *)
(* (tables, orders, next_order_number), the Order entity, the orders.json    *)
(* file and the command loop of main().                                      *)
(*                                                                           *)
(* Python strings are sequences of character codes and a Python dict is the  *)
(* sequence of its <<key, value>> pairs in insertion order. An Order object  *)
(* is identified by its order number: self.tables[t] holds the number of the *)
(* Order object it refers to, the same object self.orders holds. Console     *)
(* output is not part of the state: what an operation reports is an operator *)
(* of its inputs, and a refused operation leaves the state as it is.         *)
EXTENDS Integers, Sequences, FiniteSets, TLC

----------------------------------------------------------------------------
(* Bounds of the model *)

\* orders that may be created in one behaviour
MaxOrders == 2
\* largest total quantity the line items of all orders may accumulate to
MaxQty == 2
\* last reading of the clock
MaxTime == 2

----------------------------------------------------------------------------
(* Strings *)

coffee == <<99,111,102,102,101,101>>
tea == <<116,101,97>>
sandwich == <<115,97,110,100,119,105,99,104>>
burger == <<98,117,114,103,101,114>>
fries == <<102,114,105,101,115>>
cake == <<99,97,107,101>>
\* "Tea" and "pizza": names an operator may type
TeaCap == <<84,101,97>>
pizza == <<112,105,122,122,97>>

\* str.lower() on ASCII text
Lower(s) == [i \in 1..Len(s) |-> IF s[i] \in 65..90 THEN s[i] + 32 ELSE s[i]]

\* str.capitalize() on ASCII text
Capitalize(s) ==
    [i \in 1..Len(s) |-> IF i = 1 /\ s[i] \in 97..122 THEN s[i] - 32
                          ELSE IF i > 1 /\ s[i] \in 65..90 THEN s[i] + 32
                          ELSE s[i]]

IsSpace(c) == c \in {32, 9, 10, 13}
IsDigit(c) == c \in 48..57

\* str.strip()
RECURSIVE LStrip(_)
LStrip(s) == IF s # <<>> /\ IsSpace(Head(s)) THEN LStrip(Tail(s)) ELSE s
RECURSIVE RStrip(_)
RStrip(s) == IF s # <<>> /\ IsSpace(s[Len(s)]) THEN RStrip(SubSeq(s, 1, Len(s) - 1)) ELSE s
Strip(s) == RStrip(LStrip(s))

\* str.split(sep) for a one-character separator: always at least one field
RECURSIVE SplitOn(_, _)
SplitOn(s, sep) ==
    IF \E i \in 1..Len(s) : s[i] = sep
    THEN LET i == CHOOSE j \in 1..Len(s) : s[j] = sep /\ \A k \in 1..(j - 1) : s[k] # sep
         IN  <<SubSeq(s, 1, i - 1)>> \o SplitOn(SubSeq(s, i + 1, Len(s)), sep)
    ELSE <<s>>

\* str.split() without a separator: runs of whitespace separate, no empty field
RECURSIVE SplitWs(_)
SplitWs(s) ==
    LET t == LStrip(s) IN
    IF t = <<>> THEN <<>>
    ELSE IF \E i \in 1..Len(t) : IsSpace(t[i])
         THEN LET i == CHOOSE j \in 1..Len(t) : IsSpace(t[j]) /\ \A k \in 1..(j - 1) : ~IsSpace(t[k])
              IN  <<SubSeq(t, 1, i - 1)>> \o SplitWs(SubSeq(t, i + 1, Len(t)))
         ELSE <<t>>

\* the value of a run of decimal digits
RECURSIVE DigitsValue(_)
DigitsValue(s) == IF s = <<>> THEN 0 ELSE DigitsValue(SubSeq(s, 1, Len(s) - 1)) * 10 + (s[Len(s)] - 48)

\* int(s) accepts an optional sign followed by one or more digits
IsIntText(s) ==
    LET body == IF s # <<>> /\ s[1] \in {43, 45} THEN Tail(s) ELSE s
    IN  body # <<>> /\ \A i \in 1..Len(body) : IsDigit(body[i])

\* int(s) for a text int() accepts
IntOf(s) ==
    IF s[1] = 45 THEN 0 - DigitsValue(Tail(s))
    ELSE IF s[1] = 43 THEN DigitsValue(Tail(s))
    ELSE DigitsValue(s)

\* str(n) for n >= 0, as json.dump writes an integer dict key
RECURSIVE Str(_)
Str(n) == IF n < 10 THEN <<48 + n>> ELSE Str(n \div 10) \o <<48 + (n % 10)>>

----------------------------------------------------------------------------
(* Python dict: the sequence of its <<key, value>> pairs, insertion order *)

DictKeys(d) == {d[i][1] : i \in 1..Len(d)}
DictHas(d, k) == \E i \in 1..Len(d) : d[i][1] = k
DictGet(d, k) == d[CHOOSE i \in 1..Len(d) : d[i][1] = k][2]
\* d[k] = v
DictSet(d, k, v) ==
    IF DictHas(d, k)
    THEN [i \in 1..Len(d) |-> IF d[i][1] = k THEN <<k, v>> ELSE d[i]]
    ELSE Append(d, <<k, v>>)

----------------------------------------------------------------------------
(* Configuration *)

menu == (coffee :> 250) @@ (tea :> 50) @@ (sandwich :> 200) @@ (burger :> 350) @@ (fries :> 100) @@ (cake :> 500)

\* num_tables of Cafe.__init__
num_tables == 6
\* Python's None in self.tables: no Order object
None == 0

\* datetime.now().strftime("%Y-%m-%d %H:%M:%S"): the clock counts half
\* seconds, the text keeps whole seconds
TicksPerSecond == 2
Strftime(t) == t \div TicksPerSecond

----------------------------------------------------------------------------
(* Python float: IEEE 754 binary64, for the amounts this program computes *)

\* A natural number of any size is the sequence of its digits in base
\* 2^LimbBits, least significant first, without leading zeros; <<>> is 0.
LimbBits == 15
Base == 2^LimbBits

RECURSIVE Limbs(_)
Limbs(n) == IF n = 0 THEN <<>> ELSE <<n % Base>> \o Limbs(n \div Base)

RECURSIVE LAddC(_, _, _)
LAddC(a, b, c) ==
    IF a = <<>> /\ b = <<>> THEN Limbs(c)
    ELSE LET x == IF a = <<>> THEN 0 ELSE a[1]
             y == IF b = <<>> THEN 0 ELSE b[1]
             ra == IF a = <<>> THEN <<>> ELSE Tail(a)
             rb == IF b = <<>> THEN <<>> ELSE Tail(b)
         IN  <<(x + y + c) % Base>> \o LAddC(ra, rb, (x + y + c) \div Base)

\* a + b
LAdd(a, b) == LAddC(a, b, 0)

RECURSIVE LMulC(_, _, _)
LMulC(a, n, c) ==
    IF a = <<>> THEN Limbs(c)
    ELSE <<(a[1] * n + c) % Base>> \o LMulC(Tail(a), n, (a[1] * n + c) \div Base)

\* a * n for a machine integer 0 <= n < Base
LMulNat(a, n) == IF n = 0 THEN <<>> ELSE LMulC(a, n, 0)

\* the number written with the hexadecimal digits h, most significant first
RECURSIVE HexLimbs(_)
HexLimbs(h) ==
    IF h = <<>> THEN <<>>
    ELSE LAdd(Limbs(h[Len(h)]), LMulNat(HexLimbs(SubSeq(h, 1, Len(h) - 1)), 16))

\* the number of bits of a machine integer n >= 0
RECURSIVE BitLen(_)
BitLen(n) == IF n = 0 THEN 0 ELSE 1 + BitLen(n \div 2)

\* bit i of a, bit 0 the least significant
Bit(a, i) == (a[(i \div LimbBits) + 1] \div 2^(i % LimbBits)) % 2

\* the bits of the significand of a float
MantissaBits == 53
\* a float x >= 0 is the natural number x * 2^FracBits, which has no more
\* than MantissaBits significant bits; every amount here is 0 or at least 1/16
FracLimbs == 4
FracBits == FracLimbs * LimbBits

\* IEEE round to nearest, ties to even, to MantissaBits significant bits
Round53(a) ==
    IF a = <<>> \/ LimbBits * (Len(a) - 1) + BitLen(a[Len(a)]) <= MantissaBits THEN a
    ELSE LET k == LimbBits * (Len(a) - 1) + BitLen(a[Len(a)]) - MantissaBits
             q == k \div LimbBits
             r == k % LimbBits
             kept == [i \in 1..Len(a) |->
                         IF i <= q THEN 0
                         ELSE IF i = q + 1 THEN (a[i] \div 2^r) * 2^r
                         ELSE a[i]]
             up == Bit(a, k - 1) = 1
                   /\ (Bit(a, k) = 1 \/ \E i \in 0..(k - 2) : Bit(a, i) = 1)
         IN  IF up THEN LAdd(kept, [i \in 1..(q + 1) |-> IF i = q + 1 THEN 2^r ELSE 0])
             ELSE kept

\* float(n) for an int n >= 0
FloatOfInt(n) == IF n = 0 THEN <<>> ELSE [i \in 1..FracLimbs |-> 0] \o Limbs(n)
\* n * f for an int 0 <= n < Base and a float f: float(n) is exact, the
\* product is rounded once
FloatMulInt(n, f) == Round53(LMulNat(f, n))
\* x + y for floats
FloatAdd(x, y) == Round53(LAdd(x, y))

\* CGST_RATE = 0.09, SGST_RATE = 0.09: the float 0x1.70a3d70a3d70ap-4, which
\* is 0x170a3d70a3d70a0 / 2^60
CGST_RATE == HexLimbs(<<1, 7, 0, 10, 3, 13, 7, 0, 10, 3, 13, 7, 0, 10, 0>>)
SGST_RATE == HexLimbs(<<1, 7, 0, 10, 3, 13, 7, 0, 10, 3, 13, 7, 0, 10, 0>>)
PACKAGING_COST == 20

----------------------------------------------------------------------------
(* State *)

VARIABLES
    tables,             \* Cafe.tables: 1..6 -> None or the number of the Order it refers to
    orders,             \* Cafe.orders: dict order number -> Order
    next_order_number,  \* Cafe.next_order_number
    file,               \* orders.json
    pc                  \* where the process is: "loop" (the command loop of main()),
                        \* "exited" (choice '6') or "crashed" (an uncaught exception)

vars == <<tables, orders, next_order_number, file, pc>>

\* the process is in the command loop of main()
running == pc = "loop"

\* Order.__init__
NewOrder(table_number, order_number, t) ==
    [table_number |-> table_number, order_number |-> order_number, items |-> <<>>,
     is_active |-> TRUE, include_packaging |-> FALSE, order_time |-> Strftime(t)]

\* the Order object self.tables[t] refers to
OrderAt(t) == DictGet(orders, tables[t])

\* Cafe.validate_table_number
ValidTable(table_number) == ~(table_number < 1 \/ table_number > 6)

----------------------------------------------------------------------------
(* Order *)

\* Order.add_items leaving the loop at the first name that is not on the menu
RECURSIVE AddItemsFrom_StopAtUnknown(_, _, _)
AddItemsFrom_StopAtUnknown(items, batch, i) ==
    IF i > Len(batch) THEN items
    ELSE LET item_name == Lower(batch[i][1])
             quantity == batch[i][2]
         IN  IF item_name \in DOMAIN menu
             THEN IF DictHas(items, item_name)
                  THEN AddItemsFrom_StopAtUnknown(DictSet(items, item_name, DictGet(items, item_name) + quantity), batch, i + 1)
                  ELSE AddItemsFrom_StopAtUnknown(DictSet(items, item_name, quantity), batch, i + 1)
             ELSE items

\* Order.add_items storing the quantity of the entry instead of adding it
RECURSIVE AddItemsFrom_Overwrite(_, _, _)
AddItemsFrom_Overwrite(items, batch, i) ==
    IF i > Len(batch) THEN items
    ELSE LET item_name == Lower(batch[i][1])
             quantity == batch[i][2]
         IN  IF item_name \in DOMAIN menu
             THEN AddItemsFrom_Overwrite(DictSet(items, item_name, quantity), batch, i + 1)
             ELSE AddItemsFrom_Overwrite(items, batch, i + 1)

\* Order.add_items: the line items after the entries i.. of the batch
RECURSIVE AddItemsFrom(_, _, _)
AddItemsFrom(items, batch, i) ==
    IF i > Len(batch) THEN items
    ELSE LET item_name == Lower(batch[i][1])
             quantity == batch[i][2]
         IN  IF item_name \in DOMAIN menu
             THEN IF DictHas(items, item_name)
                  THEN AddItemsFrom(DictSet(items, item_name, DictGet(items, item_name) + quantity), batch, i + 1)
                  ELSE AddItemsFrom(DictSet(items, item_name, quantity), batch, i + 1)
             ELSE AddItemsFrom(items, batch, i + 1)

AddItems(items, batch) == AddItemsFrom(items, batch, 1)

\* what Order.add_items prints, one message per entry of the batch
AddItemsOut(batch) ==
    [i \in 1..Len(batch) |-> IF Lower(batch[i][1]) \in DOMAIN menu THEN "Added" ELSE "NotOnMenu"]

\* Order.calculate_subtotal
RECURSIVE calculate_subtotal(_)
calculate_subtotal(items) ==
    IF items = <<>> THEN 0
    ELSE menu[items[1][1]] * items[1][2] + calculate_subtotal(Tail(items))

\* Order.calculate_taxes with one combined tax instead of two
calculate_taxes_Combined(subtotal) ==
    <<FloatAdd(FloatMulInt(subtotal, CGST_RATE), FloatMulInt(subtotal, SGST_RATE)), <<>>>>

\* Order.calculate_taxes: the pair (cgst, sgst)
calculate_taxes(subtotal) ==
    <<FloatMulInt(subtotal, CGST_RATE), FloatMulInt(subtotal, SGST_RATE)>>

\* Order.calculate_total without the packaging cost
calculate_total_NoPackaging(order) ==
    LET subtotal == calculate_subtotal(order.items)
        taxes == calculate_taxes(subtotal)
    IN  <<FloatAdd(FloatAdd(FloatOfInt(subtotal), taxes[1]), taxes[2]), taxes[1], taxes[2]>>

\* Order.calculate_total: the triple (total, cgst, sgst)
calculate_total(order) ==
    LET subtotal == calculate_subtotal(order.items)
        taxes == calculate_taxes(subtotal)
        total == FloatAdd(FloatAdd(FloatOfInt(subtotal), taxes[1]), taxes[2])
    IN  <<IF order.include_packaging THEN FloatAdd(total, FloatOfInt(PACKAGING_COST)) ELSE total,
          taxes[1], taxes[2]>>

\* the rows of the item table that Order.close_order and
\* Cafe.view_order_summary print: name, quantity, unit price, total price
ItemLines(items) ==
    [i \in 1..Len(items) |->
        <<Capitalize(items[i][1]), items[i][2], menu[items[i][1]], menu[items[i][1]] * items[i][2]>>]

\* What Order.close_order prints for an order whose include_packaging is
\* set. A printed amount is fixed by its type and its value: subtotal and
\* packaging are ints, cgst, sgst and total are floats. layout is the
\* order of the parts on the console.
close_order_out(order) ==
    LET subtotal == calculate_subtotal(order.items)
        taxes == calculate_taxes(subtotal)
        total == FloatAdd(FloatAdd(FloatOfInt(subtotal), taxes[1]), taxes[2])
    IN  [ order_number |-> order.order_number,
          table_number |-> order.table_number,
          item_lines |-> ItemLines(order.items),
          subtotal |-> subtotal,
          cgst |-> taxes[1],
          sgst |-> taxes[2],
          packaging |-> IF order.include_packaging THEN <<PACKAGING_COST>> ELSE <<>>,
          total |-> IF order.include_packaging THEN FloatAdd(total, FloatOfInt(PACKAGING_COST)) ELSE total,
          layout |-> IF order.include_packaging
                     THEN <<"Items", "Subtotal", "CGST", "SGST", "Packaging Cost", "Net Total">>
                     ELSE <<"Items", "Subtotal", "CGST", "SGST", "Net Total">> ]

----------------------------------------------------------------------------
(* parse_items_input *)

\* The result after the tokens i.. of the line: raised is "" or the exception
\* that ended the parse; answers are the integers the operator finally gives
\* to the quantity prompts, k the next one to use.
RECURSIVE ParseFrom(_, _, _, _, _)
ParseFrom(tokens, i, items, answers, k) ==
    IF i > Len(tokens) THEN [raised |-> "", items |-> items]
    ELSE LET parts == SplitWs(Strip(tokens[i])) IN
         IF Len(parts) = 1
         THEN ParseFrom(tokens, i + 1, DictSet(items, Lower(parts[1]), answers[k]), answers, k + 1)
         ELSE IF Len(parts) = 0 THEN [raised |-> "IndexError", items |-> items]
         ELSE IF ~IsIntText(parts[2]) THEN [raised |-> "ValueError", items |-> items]
         ELSE ParseFrom(tokens, i + 1, DictSet(items, Lower(parts[1]), IntOf(parts[2])), answers, k)

parse_items_input(items_input, answers) == ParseFrom(SplitOn(items_input, 44), 1, <<>>, answers, 1)

\* the quantity prompts a line leads to, when every token has a name
NumPrompts(items_input) ==
    LET tokens == SplitOn(items_input, 44)
    IN  Cardinality({i \in 1..Len(tokens) : Len(SplitWs(Strip(tokens[i]))) = 1})

----------------------------------------------------------------------------
(* Persistence *)

NoFile == [exists |-> FALSE, data |-> <<>>]

\* the JSON text json.dump writes: the pairs of the dict in order, each key
\* as a string, each value the vars() of the Order
JsonDump(os) == [i \in 1..Len(os) |-> <<Str(os[i][1]), os[i][2]>>]

\* Cafe.save_orders: the file after the write
SaveOrders(os) == [exists |-> TRUE, data |-> JsonDump(os)]

EmptyTables == [i \in 1..num_tables |-> None]

\* Cafe.load_orders putting every loaded order on its table, closed ones too
RECURSIVE LoadFrom_AllOccupy(_, _, _, _)
LoadFrom_AllOccupy(data, i, tbl, os) ==
    IF i > Len(data) THEN [tables |-> tbl, orders |-> os]
    ELSE LET order_number == IntOf(data[i][1])
             order_data == data[i][2]
             order == [order_data EXCEPT !.order_number = order_number]
         IN  LoadFrom_AllOccupy(data, i + 1,
                                [tbl EXCEPT ![order_data.table_number] = order_number],
                                DictSet(os, order_number, order))

\* Cafe.load_orders keeping the is_active = True of Order.__init__
RECURSIVE LoadFrom_Reactivate(_, _, _, _)
LoadFrom_Reactivate(data, i, tbl, os) ==
    IF i > Len(data) THEN [tables |-> tbl, orders |-> os]
    ELSE LET order_number == IntOf(data[i][1])
             order_data == data[i][2]
             order == [order_data EXCEPT !.order_number = order_number, !.is_active = TRUE]
         IN  LoadFrom_Reactivate(data, i + 1,
                                 [tbl EXCEPT ![order_data.table_number] = order_number],
                                 DictSet(os, order_number, order))

\* Cafe.load_orders keeping the order_time of Order.__init__, the time of the load
RECURSIVE LoadFrom_Restamp(_, _, _, _)
LoadFrom_Restamp(data, i, tbl, os) ==
    IF i > Len(data) THEN [tables |-> tbl, orders |-> os]
    ELSE LET order_number == IntOf(data[i][1])
             order_data == data[i][2]
             order == [order_data EXCEPT !.order_number = order_number, !.order_time = Strftime(MaxTime)]
         IN  LoadFrom_Restamp(data, i + 1,
                              IF order.is_active THEN [tbl EXCEPT ![order_data.table_number] = order_number] ELSE tbl,
                              DictSet(os, order_number, order))

\* Cafe.load_orders keeping only the active orders
RECURSIVE LoadFrom_DropsClosed(_, _, _, _)
LoadFrom_DropsClosed(data, i, tbl, os) ==
    IF i > Len(data) THEN [tables |-> tbl, orders |-> os]
    ELSE LET order_number == IntOf(data[i][1])
             order_data == data[i][2]
             order == [table_number |-> order_data.table_number,
                       order_number |-> order_number,
                       items |-> order_data.items,
                       is_active |-> order_data.is_active,
                       include_packaging |-> order_data.include_packaging,
                       order_time |-> order_data.order_time]
         IN  IF order.is_active
             THEN LoadFrom_DropsClosed(data, i + 1,
                      [tbl EXCEPT ![order_data.table_number] = order_number],
                      DictSet(os, order_number, order))
             ELSE LoadFrom_DropsClosed(data, i + 1, tbl, os)

\* the loop of Cafe.load_orders over the entries i.. of the data
RECURSIVE LoadFrom(_, _, _, _)
LoadFrom(data, i, tbl, os) ==
    IF i > Len(data) THEN [tables |-> tbl, orders |-> os]
    ELSE LET order_number == IntOf(data[i][1])
             order_data == data[i][2]
             order == [table_number |-> order_data.table_number,
                       order_number |-> order_number,
                       items |-> order_data.items,
                       is_active |-> order_data.is_active,
                       include_packaging |-> order_data.include_packaging,
                       order_time |-> order_data.order_time]
         IN  LoadFrom(data, i + 1,
                      IF order.is_active THEN [tbl EXCEPT ![order_data.table_number] = order_number] ELSE tbl,
                      DictSet(os, order_number, order))

\* max(self.orders.keys(), default=0), without the + 1
NextAfter_NoPlusOne(os) ==
    IF os = <<>> THEN 0
    ELSE CHOOSE m \in DictKeys(os) : \A n \in DictKeys(os) : n <= m

\* max(self.orders.keys(), default=0) + 1
NextAfter(os) ==
    IF os = <<>> THEN 1
    ELSE (CHOOSE m \in DictKeys(os) : \A n \in DictKeys(os) : n <= m) + 1

\* Cafe.__init__ with Cafe.load_orders: the registry of a fresh Cafe
CafeInit(f) ==
    IF f.exists
    THEN LET l == LoadFrom(f.data, 1, EmptyTables, <<>>)
         IN  [tables |-> l.tables, orders |-> l.orders, next_order_number |-> NextAfter(l.orders)]
    ELSE [tables |-> EmptyTables, orders |-> <<>>, next_order_number |-> 1]

----------------------------------------------------------------------------
(* Inputs *)

\* table numbers a caller passes
TableInputs == {0, 1, 2, 7}

\* batches a caller of add_items_to_order passes
Batches ==
    { <<<<pizza, 1>>, <<TeaCap, 1>>, <<tea, 1>>>>,
      <<<<coffee, 1>>>> }

\* lines typed at "Enter items and quantities": "Coffee 1, pizza 1", "coffee",
\* "coffee 0", "coffee x", "coffee,,tea 1"
InputLines ==
    { <<67,111,102,102,101,101,32,49,44,32,112,105,122,122,97,32,49>>,
      <<99,111,102,102,101,101>>,
      <<99,111,102,102,101,101,32,48>>,
      <<99,111,102,102,101,101,32,120>>,
      <<99,111,102,102,101,101,44,44,116,101,97,32,49>> }

\* integers typed at "Enter quantity for ..."
PromptAnswers == {1}

\* order numbers a caller of view_order_summary passes
OrderNumberInputs == {0, 1, 2, 3}

\* lines typed at "Enter your choice" that are none of '1'..'6': "7", "", "x"
OtherChoices == { <<55>>, <<>>, <<120>> }

\* the choices of main that read a number with int(input(...)): '1', '2', '3', '5'
NumberChoices == { <<49>>, <<50>>, <<51>>, <<53>> }

\* lines typed at "Enter table number" or "Enter order number" that int()
\* refuses: "", "x", "1.5", "two"
BadNumberLines == { <<>>, <<120>>, <<49,46,53>>, <<116,119,111>> }

\* the table and the batches of the billing runs: one table, every item of
\* the menu, a name in capitals, a batch of two items
BillTable == 1
BillBatches ==
    { <<<<coffee, 1>>>>, <<<<tea, 1>>>>, <<<<TeaCap, 1>>>>, <<<<sandwich, 1>>>>,
      <<<<burger, 1>>>>, <<<<cake, 1>>, <<fries, 1>>>> }

----------------------------------------------------------------------------
(* Operations *)

Init ==
    /\ file = NoFile
    /\ tables = CafeInit(NoFile).tables
    /\ orders = CafeInit(NoFile).orders
    /\ next_order_number = CafeInit(NoFile).next_order_number
    /\ pc = "loop"

\* Cafe.open_order without the test that the table is free
OpenOrder_NoOccupiedTest(table_number, t) ==
    /\ running
    /\ IF ~ValidTable(table_number)
       THEN /\ UNCHANGED <<tables, orders, next_order_number, file>>
       ELSE /\ next_order_number <= MaxOrders
            /\ tables' = [tables EXCEPT ![table_number] = next_order_number]
            /\ orders' = DictSet(orders, next_order_number, NewOrder(table_number, next_order_number, t))
            /\ next_order_number' = next_order_number + 1
            /\ file' = SaveOrders(orders')
    /\ UNCHANGED pc

\* Cafe.open_order starting the registry of orders anew
OpenOrder_ForgetsOrders(table_number, t) ==
    /\ running
    /\ IF ~ValidTable(table_number)
       THEN /\ UNCHANGED <<tables, orders, next_order_number, file>>
       ELSE IF tables[table_number] = None
       THEN /\ next_order_number <= MaxOrders
            /\ tables' = [tables EXCEPT ![table_number] = next_order_number]
            /\ orders' = DictSet(<<>>, next_order_number, NewOrder(table_number, next_order_number, t))
            /\ next_order_number' = next_order_number + 1
            /\ file' = SaveOrders(orders')
       ELSE /\ UNCHANGED <<tables, orders, next_order_number, file>>
    /\ UNCHANGED pc

\* Cafe.open_order; t is what datetime.now() reads in Order.__init__
OpenOrder(table_number, t) ==
    /\ running
    /\ IF ~ValidTable(table_number)
       THEN /\ UNCHANGED <<tables, orders, next_order_number, file>>
       ELSE IF tables[table_number] = None
       THEN /\ next_order_number <= MaxOrders
            /\ tables' = [tables EXCEPT ![table_number] = next_order_number]
            /\ orders' = DictSet(orders, next_order_number, NewOrder(table_number, next_order_number, t))
            /\ next_order_number' = next_order_number + 1
            /\ file' = SaveOrders(orders')
       ELSE /\ UNCHANGED <<tables, orders, next_order_number, file>>
    /\ UNCHANGED pc

\* the sum of the quantities of a dict of line items
RECURSIVE TotalQty(_)
TotalQty(items) == IF items = <<>> THEN 0 ELSE items[1][2] + TotalQty(Tail(items))

\* the sum of the quantities of all orders of a registry
RECURSIVE AllQty(_)
AllQty(os) == IF os = <<>> THEN 0 ELSE TotalQty(os[1][2].items) + AllQty(Tail(os))

\* the quantities stay within the bound of the model
QtyInBounds(os) == AllQty(os) <= MaxQty

\* Cafe.add_items_to_order without the save_orders() after Order.add_items
AddItemsToOrder_NoSave(table_number, items) ==
    /\ running
    /\ IF ~ValidTable(table_number)
       THEN /\ UNCHANGED <<orders, file>>
       ELSE IF tables[table_number] # None /\ OrderAt(table_number).is_active
       THEN LET order == OrderAt(table_number)
                added == AddItems(order.items, items)
            IN  /\ QtyInBounds(DictSet(orders, order.order_number, [order EXCEPT !.items = added]))
                /\ orders' = DictSet(orders, order.order_number, [order EXCEPT !.items = added])
                /\ UNCHANGED file
       ELSE /\ UNCHANGED <<orders, file>>
    /\ UNCHANGED <<tables, next_order_number, pc>>

\* Cafe.add_items_to_order
AddItemsToOrder(table_number, items) ==
    /\ running
    /\ IF ~ValidTable(table_number)
       THEN /\ UNCHANGED <<orders, file>>
       ELSE IF tables[table_number] # None /\ OrderAt(table_number).is_active
       THEN LET order == OrderAt(table_number)
                added == AddItems(order.items, items)
            IN  /\ QtyInBounds(DictSet(orders, order.order_number, [order EXCEPT !.items = added]))
                /\ orders' = DictSet(orders, order.order_number, [order EXCEPT !.items = added])
                /\ file' = SaveOrders(orders')
       ELSE /\ UNCHANGED <<orders, file>>
    /\ UNCHANGED <<tables, next_order_number, pc>>

\* Cafe.close_order without self.tables[table_number] = None
CloseOrder_KeepsTable(table_number, packaging) ==
    /\ running
    /\ IF ~ValidTable(table_number)
       THEN /\ UNCHANGED <<tables, orders, file>>
       ELSE IF tables[table_number] # None /\ OrderAt(table_number).is_active
       THEN LET order == OrderAt(table_number)
            IN  /\ orders' = DictSet(orders, order.order_number,
                                     [order EXCEPT !.include_packaging = packaging, !.is_active = FALSE])
                /\ UNCHANGED tables
                /\ file' = SaveOrders(orders')
       ELSE /\ UNCHANGED <<tables, orders, file>>
    /\ UNCHANGED <<next_order_number, pc>>

\* Cafe.close_order with save_orders() after the if/else, run on every valid table
CloseOrder_AlwaysSaves(table_number, packaging) ==
    /\ running
    /\ IF ~ValidTable(table_number)
       THEN /\ UNCHANGED <<tables, orders, file>>
       ELSE IF tables[table_number] # None /\ OrderAt(table_number).is_active
       THEN LET order == OrderAt(table_number)
            IN  /\ orders' = DictSet(orders, order.order_number,
                                     [order EXCEPT !.include_packaging = packaging, !.is_active = FALSE])
                /\ tables' = [tables EXCEPT ![table_number] = None]
                /\ file' = SaveOrders(orders')
       ELSE /\ file' = SaveOrders(orders)
            /\ UNCHANGED <<tables, orders>>
    /\ UNCHANGED <<next_order_number, pc>>

\* Cafe.close_order without the question about packaging
CloseOrder_NoPackagingChoice(table_number, packaging) ==
    /\ running
    /\ IF ~ValidTable(table_number)
       THEN /\ UNCHANGED <<tables, orders, file>>
       ELSE IF tables[table_number] # None /\ OrderAt(table_number).is_active
       THEN LET order == OrderAt(table_number)
            IN  /\ orders' = DictSet(orders, order.order_number, [order EXCEPT !.is_active = FALSE])
                /\ tables' = [tables EXCEPT ![table_number] = None]
                /\ file' = SaveOrders(orders')
       ELSE /\ UNCHANGED <<tables, orders, file>>
    /\ UNCHANGED <<next_order_number, pc>>

\* Cafe.close_order with Order.close_order; packaging is the operator's
\* final yes (TRUE) or no (FALSE)
CloseOrder(table_number, packaging) ==
    /\ running
    /\ IF ~ValidTable(table_number)
       THEN /\ UNCHANGED <<tables, orders, file>>
       ELSE IF tables[table_number] # None /\ OrderAt(table_number).is_active
       THEN LET order == OrderAt(table_number)
            IN  /\ orders' = DictSet(orders, order.order_number,
                                     [order EXCEPT !.include_packaging = packaging, !.is_active = FALSE])
                /\ tables' = [tables EXCEPT ![table_number] = None]
                /\ file' = SaveOrders(orders')
       ELSE /\ UNCHANGED <<tables, orders, file>>
    /\ UNCHANGED <<next_order_number, pc>>

\* main, choice '2': parse_items_input, then Cafe.add_items_to_order
MainAddItems(table_number, items_input, answers) ==
    LET parsed == parse_items_input(items_input, answers) IN
    IF parsed.raised = ""
    THEN AddItemsToOrder(table_number, parsed.items)
    ELSE /\ running
         /\ pc' = IF parsed.raised = "ValueError" THEN "loop" ELSE "crashed"
         /\ UNCHANGED <<tables, orders, next_order_number, file>>

\* main, choice '6'
Exit ==
    /\ running
    /\ pc' = "exited"
    /\ UNCHANGED <<tables, orders, next_order_number, file>>

\* Cafe.view_past_orders without the test of is_active
RECURSIVE PastOrdersFrom_NoActiveTest(_, _)
PastOrdersFrom_NoActiveTest(os, i) ==
    IF i > Len(os) THEN <<>>
    ELSE << [order_number |-> os[i][1],
             table_number |-> os[i][2].table_number,
             order_time |-> os[i][2].order_time] >> \o PastOrdersFrom_NoActiveTest(os, i + 1)

\* Cafe.view_past_orders: the lines printed, one per completed order
RECURSIVE PastOrdersFrom(_, _)
PastOrdersFrom(os, i) ==
    IF i > Len(os) THEN <<>>
    ELSE (IF ~os[i][2].is_active
          THEN << [order_number |-> os[i][1],
                   table_number |-> os[i][2].table_number,
                   order_time |-> os[i][2].order_time] >>
          ELSE <<>>) \o PastOrdersFrom(os, i + 1)

view_past_orders == PastOrdersFrom(orders, 1)

\* Cafe.view_order_summary on the registry os: what it prints
SummaryOf(os, order_number) ==
    IF DictHas(os, order_number)
    THEN LET order == DictGet(os, order_number)
             subtotal == calculate_subtotal(order.items)
             taxes == calculate_taxes(subtotal)
             total == FloatAdd(FloatAdd(FloatOfInt(subtotal), taxes[1]), taxes[2])
         IN  IF ~order.is_active
             THEN [ kind |-> "Summary",
                    order_number |-> order_number,
                    table_number |-> order.table_number,
                    order_time |-> order.order_time,
                    item_lines |-> ItemLines(order.items),
                    subtotal |-> subtotal,
                    cgst |-> taxes[1],
                    sgst |-> taxes[2],
                    packaging |-> IF order.include_packaging THEN <<PACKAGING_COST>> ELSE <<>>,
                    total |-> IF order.include_packaging
                              THEN FloatAdd(total, FloatOfInt(PACKAGING_COST)) ELSE total,
                    layout |-> IF order.include_packaging
                               THEN <<"Items", "Packaging Cost", "Subtotal", "CGST", "SGST", "Net Total">>
                               ELSE <<"Items", "Subtotal", "CGST", "SGST", "Net Total">> ]
             ELSE [kind |-> "StillActive", order_number |-> order_number]
    ELSE [kind |-> "NotFound", order_number |-> order_number]

\* Cafe.view_order_summary without the test of is_active
view_order_summary_NoActiveTest(order_number) ==
    IF DictHas(orders, order_number)
    THEN LET order == DictGet(orders, order_number)
         IN  [close_order_out(order) EXCEPT !.layout = <<"Items", "Subtotal", "CGST", "SGST", "Net Total">>]
                 @@ [kind |-> "Summary", order_time |-> order.order_time]
    ELSE [kind |-> "NotFound", order_number |-> order_number]

\* Cafe.view_order_summary printing the packaging line without adding the
\* cost to the total
view_order_summary_PackagingNotCharged(order_number) ==
    IF DictHas(orders, order_number)
    THEN LET order == DictGet(orders, order_number)
         IN  IF ~order.is_active
             THEN [close_order_out(order) EXCEPT
                       !.total = close_order_out([order EXCEPT !.include_packaging = FALSE]).total]
                      @@ [kind |-> "Summary", order_time |-> order.order_time]
             ELSE [kind |-> "StillActive", order_number |-> order_number]
    ELSE [kind |-> "NotFound", order_number |-> order_number]

\* Cafe.view_order_summary
view_order_summary(order_number) == SummaryOf(orders, order_number)

\* main, choice '4': view_past_orders assigns nothing
ViewPastOrders ==
    /\ running
    /\ UNCHANGED vars

\* main, choice '5': view_order_summary assigns nothing
ViewOrderSummary(order_number) ==
    /\ running
    /\ UNCHANGED vars

\* main, a choice that is none of '1'..'6': "Invalid choice, please try again."
MainOtherChoice(choice) ==
    /\ running
    /\ choice \notin { <<49>>, <<50>>, <<51>>, <<52>>, <<53>>, <<54>> }
    /\ UNCHANGED vars

\* main, a choice that reads a number, and a line int() refuses: the
\* ValueError is caught at the end of the loop body
MainBadNumber(choice, line) ==
    /\ running
    /\ choice \in NumberChoices
    /\ ~IsIntText(Strip(line))
    /\ UNCHANGED vars

\* the program is started again: main builds a new Cafe from orders.json
Restart ==
    /\ ~running
    /\ pc' = "loop"
    /\ tables' = CafeInit(file).tables
    /\ orders' = CafeInit(file).orders
    /\ next_order_number' = CafeInit(file).next_order_number
    /\ UNCHANGED file

\* what the clock may read next: it does not run backwards, so not before
\* the second of the latest order
ClockReadings ==
    {r \in 0..MaxTime : \A i \in 1..Len(orders) : orders[i][2].order_time <= Strftime(r)}

Next ==
    \/ \E t \in TableInputs : \E r \in ClockReadings : OpenOrder(t, r)
    \/ \E t \in TableInputs : \E b \in Batches : AddItemsToOrder(t, b)
    \/ \E t \in TableInputs : \E l \in InputLines : \E a \in [1..NumPrompts(l) -> PromptAnswers] :
           MainAddItems(t, l, a)
    \/ \E t \in TableInputs : \E p \in BOOLEAN : CloseOrder(t, p)
    \/ ViewPastOrders
    \/ \E n \in OrderNumberInputs : ViewOrderSummary(n)
    \/ \E c \in OtherChoices : MainOtherChoice(c)
    \/ \E c \in NumberChoices : \E l \in BadNumberLines : MainBadNumber(c, l)
    \/ Exit
    \/ Restart

Spec == Init /\ [][Next]_vars

\* the billing runs: one table, served again and again
NextBilling ==
    \/ \E r \in ClockReadings : OpenOrder(BillTable, r)
    \/ \E b \in BillBatches : AddItemsToOrder(BillTable, b)
    \/ \E p \in BOOLEAN : CloseOrder(BillTable, p)
    \/ \E n \in OrderNumberInputs : ViewOrderSummary(n)
    \/ Exit
    \/ Restart

SpecBilling == Init /\ [][NextBilling]_vars

----------------------------------------------------------------------------
(* Properties *)

OrderNumbers == DictKeys(orders)
OrderOf(n) == DictGet(orders, n)
ClosedOrders == {n \in OrderNumbers : ~OrderOf(n).is_active}
ActiveOrders == {n \in OrderNumbers : OrderOf(n).is_active}

\* the batches add_items_to_order is called with: a caller's, or a parsed line
ParsedBatches ==
    UNION { { parse_items_input(l, a).items :
                a \in {x \in [1..NumPrompts(l) -> PromptAnswers] : parse_items_input(l, x).raised = ""} } :
            l \in InputLines }
AllBatches == Batches \cup ParsedBatches

\* the registry and the file are as they were
RegistryUnchanged == UNCHANGED <<tables, orders, next_order_number, file>>

\* the table has an active order: the test of add_items_to_order and close_order
HasActiveOrder(t) == tables[t] # None /\ OrderAt(t).is_active

\* C1: a table t maps to an order o if and only if o is active and o's table
\* number is t; so a table never has two active orders and no active order is
\* missing from the table map.
C1_TableIffActiveOrder ==
    /\ \A t \in 1..num_tables : tables[t] # None => tables[t] \in OrderNumbers
    /\ \A t \in 1..num_tables : \A n \in OrderNumbers :
           (tables[t] = n) <=> (OrderOf(n).is_active /\ OrderOf(n).table_number = t)

\* C1 witness: table 1 has a closed order and an active one, table 2 none
C1_Witness ==
    /\ \E n \in ClosedOrders : OrderOf(n).table_number = 1
    /\ tables[1] # None
    /\ tables[2] = None

\* C2: once the active flag of an order is false it is false in every later
\* state, whatever the registry does, persisting and reloading included.
C2_ClosedStaysClosed ==
    [][\A n \in ClosedOrders :
           DictHas(orders', n) /\ ~DictGet(orders', n).is_active]_vars

\* C2 witness: every order is closed and the program has exited, so that the
\* next step loads them
C2_Witness == ~running /\ Cardinality(ClosedOrders) = MaxOrders /\ ActiveOrders = {}

\* C3: open_order on a table that has an active order creates no order, does
\* not advance next_order_number and leaves every table and order unchanged.
C3_OpenOccupiedChangesNothing ==
    [][\A t \in TableInputs :
           \/ RegistryUnchanged
           \/ ~(ValidTable(t) /\ tables[t] # None /\ \E r \in ClockReadings : OpenOrder(t, r))]_vars

\* C3 witness: table 2 has an order with line items while an order number is
\* left, the state in which open_order(2) is refused and which it leaves as it is
C3_Witness ==
    /\ running
    /\ tables[2] # None
    /\ OrderAt(2).items # <<>>
    /\ next_order_number <= MaxOrders

\* C4: a successful close_order frees the table, open_order on a free table
\* succeeds with a new order, and no add_items_to_order call on any table
\* changes the line items of a closed order.
C4_CloseFreesTableAndFreezesItems ==
    [][/\ \A t \in {x \in TableInputs : ValidTable(x)} :
              \/ tables'[t] = None
              \/ ~(HasActiveOrder(t) /\ \E p \in BOOLEAN : CloseOrder(t, p))
       /\ \A t \in {x \in TableInputs : ValidTable(x)} :
              \/ /\ tables'[t] # None
                 /\ ~DictHas(orders, tables'[t])
                 /\ DictHas(orders', tables'[t])
                 /\ DictGet(orders', tables'[t]).is_active
              \/ ~(tables[t] = None /\ \E r \in ClockReadings : OpenOrder(t, r))
       /\ \/ \A n \in ClosedOrders : DictHas(orders', n) /\ DictGet(orders', n).items = OrderOf(n).items
          \/ ~(\E t \in TableInputs : \E b \in AllBatches : AddItemsToOrder(t, b))]_vars

\* C4 witness: table 1 was closed with line items and opened again, and items
\* were added to its new order
C4_Witness ==
    /\ \E n \in ClosedOrders : OrderOf(n).table_number = 1 /\ OrderOf(n).items # <<>>
    /\ tables[1] # None
    /\ OrderAt(1).items # <<>>

\* the quantity a batch adds to a menu name, names compared after lower()
RECURSIVE BatchQty(_, _)
BatchQty(batch, name) ==
    IF batch = <<>> THEN 0
    ELSE (IF Lower(batch[1][1]) = name THEN batch[1][2] ELSE 0) + BatchQty(Tail(batch), name)

QtyOf(items, name) == IF DictHas(items, name) THEN DictGet(items, name) ELSE 0

\* C5: add_items skips each entry whose lower-cased name is not on the menu,
\* adding no key and changing no quantity for it, reports it, and still
\* applies every entry of the batch whose name is on the menu.
C5_UnknownSkippedOthersApplied ==
    \A n \in OrderNumbers : \A b \in AllBatches :
        LET old == OrderOf(n).items
            new == AddItems(old, b)
            known == {Lower(b[i][1]) : i \in {j \in 1..Len(b) : Lower(b[j][1]) \in DOMAIN menu}}
        IN  /\ DictKeys(new) = DictKeys(old) \cup known
            /\ \A name \in DictKeys(new) : DictGet(new, name) = QtyOf(old, name) + BatchQty(b, name)
            /\ \A i \in 1..Len(b) :
                   Lower(b[i][1]) \notin DOMAIN menu
                       => /\ ~DictHas(new, b[i][1])
                          /\ ~DictHas(new, Lower(b[i][1]))
                          /\ AddItemsOut(b)[i] = "NotOnMenu"

\* C5 witness: the batch of pizza, Tea and tea was added to an order that had
\* coffee: pizza skipped, tea 2 after coffee
C5_Witness ==
    \E n \in ActiveOrders :
        /\ Len(OrderOf(n).items) = 2
        /\ OrderOf(n).items[1][1] = coffee
        /\ OrderOf(n).items[2] = <<tea, 2>>

\* C6: every quantity stored in the line items of every order is an integer
\* >= 1, for the quantities parse_items_input can produce.
C6_QuantitiesAtLeastOne ==
    \A n \in OrderNumbers :
        \A i \in 1..Len(OrderOf(n).items) :
            OrderOf(n).items[i][2] \in Int /\ OrderOf(n).items[i][2] >= 1

\* C7: saving the registry and loading it into a fresh Cafe reconstructs the
\* same table occupancy and, for every order, the same table number, line
\* items, active flag, packaging flag and timestamp; next_order_number after
\* the load is the largest order number + 1, or 1 without orders or file.
C7_RoundTrip ==
    LET c == CafeInit(SaveOrders(orders)) IN
    /\ c.tables = tables
    /\ DictKeys(c.orders) = OrderNumbers
    /\ \A n \in OrderNumbers :
           /\ DictGet(c.orders, n).table_number = OrderOf(n).table_number
           /\ DictGet(c.orders, n).items = OrderOf(n).items
           /\ DictGet(c.orders, n).is_active = OrderOf(n).is_active
           /\ DictGet(c.orders, n).include_packaging = OrderOf(n).include_packaging
           /\ DictGet(c.orders, n).order_time = OrderOf(n).order_time
    /\ \A n \in OrderNumbers : n < c.next_order_number
    /\ IF OrderNumbers = {} THEN c.next_order_number = 1
       ELSE c.next_order_number - 1 \in OrderNumbers
    /\ CafeInit(NoFile).next_order_number = 1

\* C7 witness: a closed order with packaging and line items and an active
\* order, both older than the current second
C7_Witness ==
    /\ \E n \in ClosedOrders : OrderOf(n).include_packaging /\ OrderOf(n).items # <<>>
    /\ \E n \in ActiveOrders : OrderOf(n).order_time < Strftime(MaxTime)

\* C8: open_order, add_items_to_order and close_order with a table number
\* outside 1..6, and add_items_to_order and close_order on a table without
\* an active order, change nothing: tables, orders, next_order_number, file.
C8_RejectedCallsChangeNothing ==
    [][\/ RegistryUnchanged
       \/ /\ \A t \in {x \in TableInputs : ~ValidTable(x)} :
                 ~(\/ \E r \in ClockReadings : OpenOrder(t, r)
                   \/ \E b \in AllBatches : AddItemsToOrder(t, b)
                   \/ \E p \in BOOLEAN : CloseOrder(t, p))
          /\ \A t \in {x \in TableInputs : ValidTable(x)} :
                 ~(/\ ~HasActiveOrder(t)
                   /\ \/ \E b \in AllBatches : AddItemsToOrder(t, b)
                      \/ \E p \in BOOLEAN : CloseOrder(t, p))]_vars

\* C8 witness: table 1 has an active order with line items and table 2 had an
\* order and has none now, the state in which calls on table 2 are refused
C8_Witness ==
    /\ running
    /\ tables[1] # None /\ OrderAt(1).items # <<>>
    /\ tables[2] = None
    /\ \E n \in ClosedOrders : OrderOf(n).table_number = 2

\* C9: next_order_number is greater than every existing order number, a
\* successful open_order assigns exactly next_order_number and advances it by
\* one, and no order number is assigned twice, also across a reload.
C9_OrderNumbersUniqueMonotonic ==
    /\ [](/\ \A n \in OrderNumbers : n < next_order_number
          /\ \A i, j \in 1..Len(orders) : orders[i][1] = orders[j][1] => i = j
          /\ \A i \in 1..Len(orders) : orders[i][2].order_number = orders[i][1])
    /\ [][/\ \A t \in TableInputs :
                 (ValidTable(t) /\ tables[t] = None /\ \E r \in ClockReadings : OpenOrder(t, r))
                     => /\ tables'[t] = next_order_number
                        /\ DictKeys(orders') = OrderNumbers \cup {next_order_number}
                        /\ next_order_number \notin OrderNumbers
                        /\ next_order_number' = next_order_number + 1
          /\ OrderNumbers \subseteq DictKeys(orders')
          /\ next_order_number' >= next_order_number]_vars

\* C9 witness: an order was opened while an earlier order is closed, and got
\* the number after the largest one
C9_Witness ==
    /\ Len(orders) >= 2
    /\ orders[Len(orders)][2].is_active
    /\ orders[Len(orders)][2].items = <<>>
    /\ ClosedOrders # {}
    /\ next_order_number = Len(orders) + 1

\* C10: between two operations the file content, or its absence read as the
\* empty registry, is the serialisation of the in-memory orders, so a reload
\* yields the current registry.
C10_FileIsCurrent ==
    /\ IF file.exists THEN file.data = JsonDump(orders) ELSE orders = <<>>
    /\ CafeInit(file).tables = tables
    /\ CafeInit(file).orders = orders
    /\ CafeInit(file).next_order_number = next_order_number

\* C10 witness: items were added to the second order
C10_Witness ==
    /\ file.exists
    /\ Len(orders) >= 2
    /\ orders[2][2].items # <<>>
    /\ orders[2][2].is_active

\* the price of a batch: price * quantity over its entries, by lower-cased name
RECURSIVE BatchPrice(_)
BatchPrice(batch) ==
    IF batch = <<>> THEN 0
    ELSE menu[Lower(batch[1][1])] * batch[1][2] + BatchPrice(Tail(batch))

\* the batches of menu items only, with quantities of at least 1
ValidBatches ==
    {b \in BillBatches \cup AllBatches :
        \A i \in 1..Len(b) : Lower(b[i][1]) \in DOMAIN menu /\ b[i][2] >= 1}

\* the sum of price * quantity over the names of the menu
RECURSIVE PriceOver(_, _)
PriceOver(items, names) ==
    IF names = {} THEN 0
    ELSE LET k == CHOOSE x \in names : TRUE
         IN  menu[k] * QtyOf(items, k) + PriceOver(items, names \ {k})

\* C11: after any sequence of add_items calls with batches of menu items and
\* quantities of at least 1, calculate_subtotal() is the sum over the menu of
\* price * (all quantities added for that item, names lower-cased): a new
\* order has subtotal 0 and each further batch raises the subtotal by the
\* price of the whole batch, so repeated additions accumulate.
C11_SubtotalIsSumOfAllAdded ==
    \A n \in OrderNumbers :
        LET items == OrderOf(n).items
        IN  /\ calculate_subtotal(items) = PriceOver(items, DOMAIN menu)
            /\ calculate_subtotal(NewOrder(1, n, 0).items) = 0
            /\ \A b \in ValidBatches :
                   /\ calculate_subtotal(AddItems(items, b)) = calculate_subtotal(items) + BatchPrice(b)
                   /\ \A k \in DOMAIN menu :
                          QtyOf(AddItems(items, b), k) = QtyOf(items, k) + BatchQty(b, k)

\* C11 witness: "Tea 1" and "tea 1" were added to one order in two calls
C11_Witness ==
    \E n \in OrderNumbers :
        /\ OrderOf(n).items = <<<<tea, 2>>>>
        /\ calculate_subtotal(OrderOf(n).items) = 100

\* the sum of floats as a real number, not rounded
ExactSum(parts) ==
    LAdd(LAdd(LAdd(parts[1], parts[2]), parts[3]), parts[4])

\* C12: calculate_total() returns total = subtotal + cgst + sgst + (20 if
\* the packaging flag is set, else 0), with cgst and sgst; one coffee and one
\* tea give subtotal 300, cgst 27, sgst 27, total 354 without and 374 with
\* packaging.
C12_TotalIsSumOfParts ==
    \A n \in OrderNumbers :
        LET order == OrderOf(n)
            subtotal == calculate_subtotal(order.items)
            result == calculate_total(order)
        IN  /\ result[2] = calculate_taxes(subtotal)[1]
            /\ result[3] = calculate_taxes(subtotal)[2]
            /\ result[1] = ExactSum(<<FloatOfInt(subtotal), result[2], result[3],
                                      IF order.include_packaging THEN FloatOfInt(20) ELSE <<>> >>)
            /\ order.items = <<<<coffee, 1>>, <<tea, 1>>>>
                   => /\ subtotal = 300
                      /\ result[2] = FloatOfInt(27)
                      /\ result[3] = FloatOfInt(27)
                      /\ result[1] = FloatOfInt(IF order.include_packaging THEN 374 ELSE 354)

\* C12 witness: one coffee and one tea, closed with packaging
C12_Witness ==
    \E n \in ClosedOrders :
        /\ OrderOf(n).items = <<<<coffee, 1>>, <<tea, 1>>>>
        /\ OrderOf(n).include_packaging
        /\ calculate_total(OrderOf(n))[1] = FloatOfInt(374)

\* C13: for every subtotal reached from menu prices and bounded quantities,
\* calculate_taxes(subtotal) returns two equal values, each exactly 9% of
\* the subtotal: 100 * tax = 9 * subtotal as real numbers.
C13_TaxesEqualAndNinePercent ==
    \A n \in OrderNumbers :
        LET subtotal == calculate_subtotal(OrderOf(n).items)
            taxes == calculate_taxes(subtotal)
        IN  /\ taxes[1] = taxes[2]
            /\ LMulNat(taxes[1], 100) = LMulNat(FloatOfInt(subtotal), 9)
            /\ LMulNat(taxes[2], 100) = LMulNat(FloatOfInt(subtotal), 9)

\* C13 witness: a subtotal of 50, whose taxes are 4.5 each
C13_Witness ==
    \E n \in OrderNumbers :
        /\ calculate_subtotal(OrderOf(n).items) = 50
        /\ LMulNat(calculate_taxes(50)[1], 2) = FloatOfInt(9)

\* the fields of a report that carry a subtotal, a tax or a total
AmountFields == {"subtotal", "cgst", "sgst", "packaging", "total"}

\* C14: view_order_summary(n) reports "not found" when n is no order number
\* and "still active" when order n is active, in both cases with no
\* subtotal, tax or total; it reports totals only for a closed order; and it
\* never changes the registry or the file.
C14_SummaryOnlyForClosedOrders ==
    /\ [](\A n \in OrderNumberInputs :
            LET v == view_order_summary(n)
            IN  /\ n \notin OrderNumbers
                       => v.kind = "NotFound" /\ DOMAIN v \cap AmountFields = {}
                /\ n \in ActiveOrders
                       => v.kind = "StillActive" /\ DOMAIN v \cap AmountFields = {}
                /\ DOMAIN v \cap AmountFields # {}
                       => /\ n \in ClosedOrders
                          /\ v.kind = "Summary"
                          /\ AmountFields \subseteq DOMAIN v)
    /\ [][\A n \in OrderNumberInputs : ViewOrderSummary(n) => RegistryUnchanged]_vars

\* C14 witness: order 1 is closed, order 2 is active, there is no order 3
C14_Witness ==
    /\ view_order_summary(1).kind = "Summary"
    /\ view_order_summary(2).kind = "StillActive"
    /\ view_order_summary(3).kind = "NotFound"

\* two reports show the same bill
SameBill(a, b) ==
    /\ a.item_lines = b.item_lines
    /\ a.subtotal = b.subtotal
    /\ a.cgst = b.cgst
    /\ a.sgst = b.sgst
    /\ a.packaging = b.packaging
    /\ a.total = b.total

\* C15: for every closed order view_order_summary reports the same item
\* breakdown, subtotal, cgst, sgst, packaging line (present iff the flag is
\* set) and net total as the report printed when the order was closed, and
\* that total is the one calculate_total() returns; the summary of a closed
\* order is the same in every later state, also after a save and a reload.
C15_SummaryMatchesCloseReport ==
    /\ [](\A n \in ClosedOrders :
            /\ SameBill(close_order_out(OrderOf(n)), view_order_summary(n))
            /\ (view_order_summary(n).packaging # <<>>) <=> OrderOf(n).include_packaging
            /\ view_order_summary(n).total = calculate_total(OrderOf(n))[1])
    /\ [][\A n \in DictKeys(orders') :
            ~DictGet(orders', n).is_active
                => IF n \in ClosedOrders
                   THEN SummaryOf(orders', n) = SummaryOf(orders, n)
                   ELSE /\ n \in ActiveOrders
                        /\ SameBill(close_order_out(DictGet(orders', n)), SummaryOf(orders', n))]_vars

\* C15 witness: an order of one coffee and one tea was closed with packaging
\* and its summary shows the packaging line and 374 while the table is
\* served again
C15_Witness ==
    \E n \in ClosedOrders :
        /\ view_order_summary(n).packaging = <<PACKAGING_COST>>
        /\ view_order_summary(n).total = FloatOfInt(374)
        /\ tables[OrderOf(n).table_number] # None

\* C16: view_past_orders lists exactly the orders whose is_active is false,
\* each once, in ascending order of the order numbers, and no active order,
\* in every reachable state, also after the registry was saved and loaded.
C16_PastOrdersAreTheClosedOrders ==
    LET listed == view_past_orders
    IN  /\ {listed[i].order_number : i \in 1..Len(listed)} = ClosedOrders
        /\ Len(listed) = Cardinality(ClosedOrders)
        /\ \A i \in 1..Len(listed) : \A j \in 1..Len(listed) :
               i < j => listed[i].order_number < listed[j].order_number
        /\ \A i \in 1..Len(listed) :
               /\ listed[i].order_number \notin ActiveOrders
               /\ listed[i].table_number = OrderOf(listed[i].order_number).table_number
               /\ listed[i].order_time = OrderOf(listed[i].order_number).order_time

\* C16 witness: order 1 is listed, order 2 is active and not listed
C16_Witness ==
    /\ Len(view_past_orders) = 1
    /\ view_past_orders[1].order_number = 1
    /\ 2 \in ActiveOrders

\* C17: every error in the shell is non-fatal: whatever the choice, the
\* table or order number text and the item line (empty tokens and
\* non-numeric quantities included), the command loop goes on; only the
\* exit command ends it. So no uncaught exception ever ends the process.
C17_OnlyExitEndsLoop == pc # "crashed"

\* C18: the packaging flag is decided only at close time: every active order
\* has include_packaging unset; close_order sets it to the operator's choice
\* in the step that makes the order inactive and frees its table; after
\* that step the flag of the order never changes.
C18_PackagingDecidedAtClose ==
    /\ [](\A n \in ActiveOrders : ~OrderOf(n).include_packaging)
    /\ [][\A t \in 1..num_tables : \A p \in BOOLEAN :
            \/ ~HasActiveOrder(t)
            \/ LET n == tables[t]
               IN  /\ n \in DictKeys(orders')
                   /\ DictGet(orders', n).include_packaging = p
                   /\ ~DictGet(orders', n).is_active
                   /\ tables'[t] = None
            \/ ~CloseOrder(t, p)]_vars
    /\ [][\A n \in OrderNumbers :
            /\ n \in DictKeys(orders')
            /\ \/ DictGet(orders', n).include_packaging = OrderOf(n).include_packaging
               \/ /\ OrderOf(n).is_active
                  /\ ~DictGet(orders', n).is_active
                  /\ tables[OrderOf(n).table_number] = n
                  /\ tables'[OrderOf(n).table_number] = None]_vars

\* C18 witness: an order closed with packaging, and the table served again
C18_Witness ==
    \E n \in ClosedOrders :
        /\ OrderOf(n).include_packaging
        /\ OrderOf(n).items # <<>>
        /\ tables[OrderOf(n).table_number] \in ActiveOrders

\* C19: open_order(t) on a valid table t with no active order creates exactly
\* one new order, with table number t, no line items, is_active true and
\* include_packaging false, makes t map to it, and leaves the mapping of
\* every other table and every existing order unchanged.
C19_OpenCreatesOneOrderOnly ==
    [][\A t \in TableInputs :
           \/ LET n == next_order_number
              IN  /\ n \notin OrderNumbers
                  /\ DictKeys(orders') = OrderNumbers \cup {n}
                  /\ Len(orders') = Len(orders) + 1
                  /\ DictGet(orders', n).table_number = t
                  /\ DictGet(orders', n).order_number = n
                  /\ DictGet(orders', n).items = <<>>
                  /\ DictGet(orders', n).is_active
                  /\ ~DictGet(orders', n).include_packaging
                  /\ tables'[t] = n
                  /\ \A u \in (1..num_tables) \ {t} : tables'[u] = tables[u]
                  /\ \A m \in OrderNumbers : DictGet(orders', m) = OrderOf(m)
           \/ ~(ValidTable(t) /\ tables[t] = None /\ \E r \in ClockReadings : OpenOrder(t, r))]_vars

\* C19 witness: table 2 was opened while table 1 had an order with line items
C19_Witness ==
    /\ tables[2] = 2
    /\ OrderOf(2).items = <<>>
    /\ OrderOf(2).is_active
    /\ tables[1] = 1
    /\ OrderAt(1).items # <<>>

\* C20: orders are never deleted and closed orders are frozen: the set of
\* order numbers only grows under every operation, and once an order is
\* closed its table number, order number, line items, packaging flag and
\* timestamp are the same in every later state, also after the table is
\* opened again and after a save and a load.
C20_OrdersKeptClosedFrozen ==
    [][/\ OrderNumbers \subseteq DictKeys(orders')
       /\ \A n \in ClosedOrders :
              /\ DictGet(orders', n).table_number = OrderOf(n).table_number
              /\ DictGet(orders', n).order_number = OrderOf(n).order_number
              /\ DictGet(orders', n).items = OrderOf(n).items
              /\ DictGet(orders', n).include_packaging = OrderOf(n).include_packaging
              /\ DictGet(orders', n).order_time = OrderOf(n).order_time
              /\ ~DictGet(orders', n).is_active]_vars

\* C20 witness: order 1 was closed with line items, its table has the new
\* order 2, and the program has ended, so that the next step loads the file
C20_Witness ==
    /\ ~running
    /\ 1 \in ClosedOrders
    /\ OrderOf(1).items # <<>>
    /\ tables[OrderOf(1).table_number] = 2

====
